---- MODULE Spec2Model ----
(***************************************************************************)
(* Model of src/path_detector.py: detect, find_center, model_to_heading    *)
(* and profile.                                                            *)
(*                                                                         *)
(* Numbers.  The sample coordinates produced by np.linspace(a, b, num) are *)
(* the rationals a + i*(b-a)/(num-1).  A coordinate is kept as its         *)
(* numerator over the common denominator num-1 (39 inside find_center), so *)
(* that rounding, range tests and the final int() are computed exactly.    *)
(*                                                                         *)
(* Angles.  np.arctan2 returns an angle in [-pi, pi].  An angle is kept as *)
(* [s, dir]: s is its sign bit (1 or -1, the sign bit of a zero included)  *)
(* and dir = <<a, b>> is the direction (sin, cos) of its magnitude reduced *)
(* to lowest terms, a >= 0.  <<0,1>> is 0, <<1,0>> is 90 degrees, <<0,-1>> *)
(* is 180 degrees, and b > 0 exactly when the magnitude is below 90.       *)
(*                                                                         *)
(* Floating point.  The doubles linspace produces differ from the exact    *)
(* coordinates by rounding errors far below 1/78, which change a result    *)
(* only where int() is applied to a sum whose exact value is an integer:   *)
(* there the double is that integer or a neighbour of it.  fp_err fixes    *)
(* the side for one behaviour (one build and platform): -1 below, 0 exact, *)
(* 1 above.  cv2_strict fixes likewise whether the platform's cv2 raises    *)
(* when asked to draw on an image without pixels.                          *)
(***************************************************************************)
EXTENDS Integers, Sequences, FiniteSets, TLC

\* ------------------------------------------------------------- constants

\* profile(mask, p0, pl, 40): samples taken on each side
NumSamples == 40
\* contact_l = p0 + np.array([-100, 0])
FallbackLeft == 100
\* contact_r = p0 + np.array([30, 0])
FallbackRight == 30
\* y0 = int(img_height*.6): the fraction .6 as RowNum/RowDen
RowNum == 6
RowDen == 10

\* --------------------------------------------------------------- bounds

\* largest height and width of the exhaustively enumerated masks
MaxH == 2
MaxW == 6
\* largest number of non-zero pixels in a mask
MaxPixels == 2
\* largest height and width of the masks given to find_center directly
MaxFindH == 1
MaxFindW == 4
\* largest number of detect calls recorded in one behaviour
MaxCalls == 3
\* largest sample count given to profile when it is called directly
MaxNum == 4
\* largest number of non-zero pixels in a mask given to profile directly
MaxProfPixels == 1
\* largest absolute coordinate given to model_to_heading directly
MaxCoord == 3

\* ------------------------------------------------------------ arithmetic

Abs(v) == IF v < 0 THEN -v ELSE v

RECURSIVE Gcd(_, _)
Gcd(a, b) == IF b = 0 THEN a ELSE Gcd(b, a % b)

\* mutant of IntTrunc: floor instead of truncation toward zero
IntTrunc_Floor(n, d) == n \div d

\* int(v) of a Python float v = n/d (d > 0): truncation toward zero
IntTrunc(n, d) == IF n >= 0 THEN n \div d ELSE -((-n) \div d)

\* the integer nearest to n/d, halves rounded up
RoundNearest(n, d) == (2*n + d) \div (2*d)

\* ------------------------------------------------------------------ mask

\* A mask is [shape, px]: shape is the tuple mask.shape, px maps the
\* <<row, column>> of each non-zero pixel to its value.
MaskAt(mask, r, c) == IF <<r, c>> \in DOMAIN mask.px THEN mask.px[<<r, c>>] ELSE 0

Height(mask) == mask.shape[1]
Width(mask) == mask.shape[2]

\* ------------------------------------------------------------- profile

\* denominator of the coordinates of np.linspace(a, b, num)
Den(num) == IF num > 1 THEN num - 1 ELSE 1

\* np.linspace(a, b, num): numerators over Den(num); entry i (1-based) is
\* a + (i-1)*(b-a)/(num-1)
Linspace(a, b, num) == [i \in 1..num |-> a*Den(num) + (i-1)*(b - a)]

\* mutant of NearestIndex: the coordinate is truncated, not rounded
NearestIndex_Floor(n, d) == n \div d

\* order=0 lookup of ndimage.map_coordinates: floor(c + 0.5)
NearestIndex(n, d) == (2*n + d) \div (2*d)

\* mutant of InExtent: every coordinate whose nearest cell exists is read
InExtent_Grid(n, d, len) == 2*n >= -d /\ 2*n < (2*len - 1)*d

\* mode='constant': a coordinate below 0 or above len-1 reads cval = 0
InExtent(n, d, len) == n >= 0 /\ n <= (len - 1)*d

\* ndimage.map_coordinates(mask, [m, n], order=0)
MapCoordinates(mask, m, n, d) ==
  [i \in 1..Len(n) |->
     IF InExtent(m[i], d, Height(mask)) /\ InExtent(n[i], d, Width(mask))
     THEN MaskAt(mask, NearestIndex(m[i], d), NearestIndex(n[i], d))
     ELSE 0]

\* profile(mask, p0, p1, num); points are <<x, y>>
Profile(mask, p0, p1, num) ==
  LET n == Linspace(p0[1], p1[1], num)
      m == Linspace(p0[2], p1[2], num)
  IN  [n |-> n, m |-> m, vals |-> MapCoordinates(mask, m, n, Den(num))]

\* ---------------------------------------------------------- find_center

\* int(img_width / 2)
HalfWidth(w) == IntTrunc(w, 2)

\* np.nonzero(vals)[0], 1-based
NonZero(vals) == {i \in 1..Len(vals) : vals[i] # 0}

\* mutant of First: the last index instead of the first
First_Last(S) == CHOOSE i \in S : \A j \in S : i >= j

\* idx[0]: the first of the indices
First(S) == CHOOSE i \in S : \A j \in S : i <= j

\* mutant of FallbackContactL: the offset 30 of the comment on line 122
FallbackContactL_Comment(p0, d) == <<(p0[1] - FallbackRight)*d, p0[2]*d>>

\* p0 + np.array([-100, 0]), over the denominator d
FallbackContactL(p0, d) == <<(p0[1] - FallbackLeft)*d, p0[2]*d>>

\* p0 + np.array([30, 0]), over the denominator d
FallbackContactR(p0, d) == <<(p0[1] + FallbackRight)*d, p0[2]*d>>

\* mutant of Contact: the pixel read by the sample instead of the sample
Contact_Pixel(prof, fallback) ==
  IF NonZero(prof.vals) = {} THEN fallback
  ELSE LET i == First(NonZero(prof.vals))
           d == Den(Len(prof.n))
       IN  <<RoundNearest(prof.n[i], d)*d, RoundNearest(prof.m[i], d)*d>>

\* the contact of one side: the first non-zero sample, or the fallback
Contact(prof, fallback) ==
  IF NonZero(prof.vals) = {} THEN fallback
  ELSE <<prof.n[First(NonZero(prof.vals))], prof.m[First(NonZero(prof.vals))]>>

\* int(v) of the float sum n/d computed from operands that are not all
\* representable: when the exact value is an integer k the float is k or a
\* neighbouring double, on the side err (-1 below, 1 above, 0 exact)
FloatTrunc(n, d, inexact, err) ==
  IF inexact /\ n % d = 0
  THEN LET k == n \div d
       IN  IF err < 0 /\ k > 0 THEN k - 1
           ELSE IF err > 0 /\ k < 0 THEN k + 1
           ELSE k
  ELSE IntTrunc(n, d)

\* a sample coordinate n/d that is no integer is no exact double
Inexact(n, d) == n % d # 0

\* center = (contact_l + contact_r) / 2; (int(center[0]), int(center[1]))
Center(cl, cr, d, err) ==
  <<FloatTrunc(cl[1] + cr[1], 2*d, Inexact(cl[1], d) \/ Inexact(cr[1], d), err),
    FloatTrunc(cl[2] + cr[2], 2*d, Inexact(cl[2], d) \/ Inexact(cr[2], d), err)>>

\* ----------------------------------------------------- model_to_heading

\* a float with its sign bit: s is 1 or -1, a the magnitude
Float(v) == [s |-> IF v < 0 THEN -1 ELSE 1, a |-> Abs(v)]

\* unary minus of a float flips the sign bit, of a zero too
FNeg(f) == [s |-> -f.s, a |-> f.a]

\* np.arctan2(y, x) on floats: sign from y's sign bit, magnitude from the
\* direction (|y|, x); atan2(+-0, +0) = +-0 and atan2(+-0, -0) = +-pi
Arctan2(fy, fx) ==
  IF fy.a = 0 /\ fx.a = 0
  THEN [s |-> fy.s, dir |-> <<0, fx.s>>]
  ELSE LET g == Gcd(fy.a, fx.a)
       IN  [s |-> fy.s, dir |-> <<fy.a \div g, (fx.s * fx.a) \div g>>]

\* unary minus of an angle flips its sign bit
ANeg(t) == [s |-> -t.s, dir |-> t.dir]

\* mutant of ModelToHeading: dy is not negated
ModelToHeading_NoFlip(model_xy, car_center_xy) ==
  LET dx == Float(model_xy[1] - car_center_xy[1])
      dy == Float(model_xy[2] - car_center_xy[2])
  IN  ANeg(Arctan2(dx, dy))

\* heading = -np.arctan2(dx, -dy)*180/np.pi; the factor 180/pi changes the
\* unit in which a direction is read, not the direction
ModelToHeading(model_xy, car_center_xy) ==
  LET dx == Float(model_xy[1] - car_center_xy[1])
      dy == Float(model_xy[2] - car_center_xy[2])
  IN  ANeg(Arctan2(dx, FNeg(dy)))

HeadingIsZero(h) == h.dir = <<0, 1>>
HeadingPositive(h) == h.s = 1 /\ h.dir # <<0, 1>>
HeadingNegative(h) == h.s = -1 /\ h.dir # <<0, 1>>
HeadingBelow90(h) == h.dir[2] > 0
HeadingIs90(h) == h.dir = <<1, 0>>
HeadingIs180(h) == h.dir = <<0, -1>>

\* ---------------------------------------------------------------- inputs

\* the value of a non-zero pixel of a binarized frame
PixelValues == {255}

\* the shape of the 100 x 100 frame of the end-to-end examples
ExampleShape == <<100, 100>>

\* the pixels of the 100 x 100 frame that may be non-zero: around the
\* sampled row 60 and the columns 30, 50 and 70
ProbeCells == {<<60, c>> : c \in {0, 29, 30, 31, 50, 69, 70, 71}} \cup {<<59, 30>>}

\* shapes that are not 2-D
OtherRankShapes == {<<3>>, <<2, 2, 3>>}

Shapes2D == {<<h, w>> : h \in 0..MaxH, w \in 0..MaxW} \cup {ExampleShape}

Cells(shape) ==
  IF shape = ExampleShape THEN ProbeCells
  ELSE (0..(shape[1] - 1)) \X (0..(shape[2] - 1))

\* the subsets of S with at most k elements
RECURSIVE SubsetsUpTo(_, _)
SubsetsUpTo(S, k) ==
  IF k = 0 THEN {{}}
  ELSE LET P == SubsetsUpTo(S, k - 1)
       IN  P \cup {T \cup {x} : T \in P, x \in S}

\* the masks of a shape with at most k non-zero pixels
MasksOf(shape, k, values) ==
  {[shape |-> shape, px |-> f] :
     f \in UNION {[S -> values] : S \in SubsetsUpTo(Cells(shape), k)}}

EmptyPx == [c \in {} |-> 0]

Masks ==
  UNION {MasksOf(sh, MaxPixels, PixelValues) : sh \in Shapes2D}
    \cup {[shape |-> sh, px |-> EmptyPx] : sh \in OtherRankShapes}

\* the masks of the behaviours that record every call's outcome
DetShapes == {<<1, 2>>, <<0, 2>>, <<3>>}
DetMasks == {m \in Masks : m.shape \in DetShapes}

\* ----------------------------------------------------------------- state

VARIABLES
  pc,           \* position of the running call, "idle" between calls
  entry,        \* the function the caller called: "detect" or "find_center"
  mask,         \* the array the running call reads
  arg,          \* the caller's copy of the array it passed
  img_height, img_width, x0, y0, car_center,
  prof_l, prof_r,           \* (xl, yl, l_val) and (xr, yr, r_val)
  contact_l, contact_r,     \* numerators over Den(NumSamples)
  road_center, heading, path_dict, path_img,
  error,        \* the exception a call ended with
  profile_calls,\* calls of profile made by the running call
  seen,         \* <<mask, outcome>> of the calls recorded so far
  track,        \* whether outcomes are recorded
  fp_err,       \* side of the rounding error of an inexact double
  cv2_strict,   \* whether cv2 refuses to draw on an image without pixels
  p0, p1, num, prof_out,    \* a direct call of profile
  model_xy, car_center_xy   \* a direct call of model_to_heading

vars == <<pc, entry, mask, arg, img_height, img_width, x0, y0, car_center, prof_l,
          prof_r, contact_l, contact_r, road_center, heading, path_dict,
          path_img, error, profile_calls, seen, track, fp_err, cv2_strict,
          p0, p1, num, prof_out, model_xy, car_center_xy>>

\* --------------------------------------------------------------- defaults

NoMask == [shape |-> <<>>, px |-> EmptyPx]
NoProfile == [n |-> <<>>, m |-> <<>>, vals |-> <<>>]
NoPoint == <<0, 0>>
NoHeading == [s |-> 0, dir |-> <<0, 0>>]
NoDict == [heading |-> NoHeading]

\* the locals of a call that is not running
LocalsCleared ==
  /\ img_height = 0 /\ img_width = 0 /\ x0 = 0 /\ y0 = 0
  /\ car_center = NoPoint
  /\ prof_l = NoProfile /\ prof_r = NoProfile
  /\ contact_l = NoPoint /\ contact_r = NoPoint
  /\ road_center = NoPoint /\ heading = NoHeading
  /\ path_dict = NoDict /\ path_img = <<>>
  /\ error = "" /\ profile_calls = 0

DirectCleared ==
  /\ p0 = NoPoint /\ p1 = NoPoint /\ num = 0 /\ prof_out = NoProfile
  /\ model_xy = NoPoint /\ car_center_xy = NoPoint

InitCommon ==
  /\ pc = "idle" /\ entry = "" /\ mask = NoMask /\ arg = NoMask
  /\ LocalsCleared /\ DirectCleared
  /\ seen = {}

\* the platform: one of the builds the module may run on
Platform == fp_err \in {-1, 0, 1} /\ cv2_strict \in BOOLEAN

Init == InitCommon /\ track = FALSE /\ Platform

InitDet == InitCommon /\ track = TRUE /\ Platform

InitDirect == InitCommon /\ track = FALSE /\ fp_err = 0 /\ cv2_strict = FALSE

\* --------------------------------------------------------------- detect

directVars == <<p0, p1, num, prof_out, model_xy, car_center_xy>>
envVars == <<track, fp_err, cv2_strict>>

\* the masks a caller passes
Frames == IF track THEN DetMasks ELSE Masks

\* detect(mask) is called
Detect(m) ==
  /\ pc = "idle"
  /\ Cardinality(seen) < MaxCalls
  /\ mask' = m /\ arg' = m
  /\ entry' = "detect"
  /\ pc' = "shape"
  /\ UNCHANGED <<img_height, img_width, x0, y0, car_center, prof_l, prof_r,
                 contact_l, contact_r, road_center, heading, path_dict,
                 path_img, error, profile_calls, seen>>
  /\ UNCHANGED directVars /\ UNCHANGED envVars

\* img_height, img_width = mask.shape fails to unpack a shape of another rank
ShapeError ==
  /\ pc = "shape"
  /\ Len(mask.shape) # 2
  /\ error' = "ValueError"
  /\ pc' = "raised"
  /\ UNCHANGED <<entry, mask, arg, img_height, img_width, x0, y0, car_center, prof_l,
                 prof_r, contact_l, contact_r, road_center, heading,
                 path_dict, path_img, profile_calls, seen>>
  /\ UNCHANGED directVars /\ UNCHANGED envVars

\* mutant of SampleRow: the row moves with the calls made before
SampleRow_Stateful(h) == IntTrunc(RowNum*h, RowDen) + Cardinality(seen)

\* int(img_height*.6)
SampleRow(h) == IntTrunc(RowNum*h, RowDen)

\* lines 52-58: the shape, the reference point and the car center
Shape ==
  /\ pc = "shape"
  /\ Len(mask.shape) = 2
  /\ img_height' = Height(mask)
  /\ img_width' = Width(mask)
  /\ x0' = HalfWidth(Width(mask))
  /\ y0' = SampleRow(Height(mask))
  /\ car_center' = <<HalfWidth(Width(mask)), Height(mask)>>
  /\ pc' = "find_center"
  /\ UNCHANGED <<entry, mask, arg, prof_l, prof_r, contact_l, contact_r, road_center,
                 heading, path_dict, path_img, error, profile_calls, seen>>
  /\ UNCHANGED directVars /\ UNCHANGED envVars

\* find_center lines 104-113: the two scans from (x, y)
FindCenterProfiles ==
  /\ pc = "find_center"
  /\ LET sample_width == HalfWidth(Width(mask))
         q0 == <<x0, y0>>
         pl == <<x0 - sample_width, y0>>
         pr == <<x0 + sample_width, y0>>
     IN  /\ prof_l' = Profile(mask, q0, pl, NumSamples)
         /\ prof_r' = Profile(mask, q0, pr, NumSamples)
  /\ profile_calls' = profile_calls + 2
  /\ pc' = "sampled"
  /\ UNCHANGED <<entry, mask, arg, img_height, img_width, x0, y0, car_center,
                 contact_l, contact_r, road_center, heading, path_dict,
                 path_img, error, seen>>
  /\ UNCHANGED directVars /\ UNCHANGED envVars

\* find_center lines 116-132: the contact of each side
FindCenterContacts ==
  /\ pc = "sampled"
  /\ contact_l' = Contact(prof_l, FallbackContactL(<<x0, y0>>, Den(NumSamples)))
  /\ contact_r' = Contact(prof_r, FallbackContactR(<<x0, y0>>, Den(NumSamples)))
  /\ pc' = "contacts"
  /\ UNCHANGED <<entry, mask, arg, img_height, img_width, x0, y0, car_center, prof_l,
                 prof_r, road_center, heading, path_dict, path_img, error,
                 profile_calls, seen>>
  /\ UNCHANGED directVars /\ UNCHANGED envVars

\* find_center lines 134-136: the road center
FindCenterReturn ==
  /\ pc = "contacts"
  /\ road_center' = Center(contact_l, contact_r, Den(NumSamples), fp_err)
  /\ pc' = "center"
  /\ UNCHANGED <<entry, mask, arg, img_height, img_width, x0, y0, car_center, prof_l,
                 prof_r, contact_l, contact_r, heading, path_dict, path_img,
                 error, profile_calls, seen>>
  /\ UNCHANGED directVars /\ UNCHANGED envVars

\* line 67
Heading ==
  /\ pc = "center"
  /\ entry = "detect"
  /\ heading' = ModelToHeading(road_center, car_center)
  /\ pc' = "heading"
  /\ UNCHANGED <<entry, mask, arg, img_height, img_width, x0, y0, car_center, prof_l,
                 prof_r, contact_l, contact_r, road_center, path_dict,
                 path_img, error, profile_calls, seen>>
  /\ UNCHANGED directVars /\ UNCHANGED envVars

\* np.zeros((img_height, img_width, 3), np.uint8): the shape of path_img
PathImgShape(h, w) == <<h, w, 3>>

\* lines 75-98: the dictionary and the image are built and returned
Package ==
  /\ pc = "heading"
  /\ ~(cv2_strict /\ (img_height = 0 \/ img_width = 0))
  /\ path_dict' = [heading |-> heading]
  /\ path_img' = PathImgShape(img_height, img_width)
  /\ pc' = "done"
  /\ UNCHANGED <<entry, mask, arg, img_height, img_width, x0, y0, car_center, prof_l,
                 prof_r, contact_l, contact_r, road_center, heading, error,
                 profile_calls, seen>>
  /\ UNCHANGED directVars /\ UNCHANGED envVars

\* lines 87-94 on an image without pixels: whether cv2 draws on it or
\* raises depends on the platform
PackageDrawError ==
  /\ pc = "heading"
  /\ cv2_strict /\ (img_height = 0 \/ img_width = 0)
  /\ error' = "cv2.error"
  /\ pc' = "raised"
  /\ UNCHANGED <<entry, mask, arg, img_height, img_width, x0, y0, car_center, prof_l,
                 prof_r, contact_l, contact_r, road_center, heading,
                 path_dict, path_img, profile_calls, seen>>
  /\ UNCHANGED directVars /\ UNCHANGED envVars

\* the locals of the call are dropped
ClearLocals ==
  /\ img_height' = 0 /\ img_width' = 0 /\ x0' = 0 /\ y0' = 0
  /\ car_center' = NoPoint
  /\ prof_l' = NoProfile /\ prof_r' = NoProfile
  /\ contact_l' = NoPoint /\ contact_r' = NoPoint
  /\ road_center' = NoPoint /\ heading' = NoHeading
  /\ path_dict' = NoDict /\ path_img' = <<>>
  /\ error' = "" /\ profile_calls' = 0

\* what the caller receives
Outcome ==
  IF pc = "done" THEN [kind |-> "return", dict |-> path_dict, error |-> ""]
  ELSE [kind |-> "raise", dict |-> NoDict, error |-> error]

\* the call ends: its locals are dropped, the caller keeps its array
Return ==
  /\ pc \in {"done", "raised"}
  /\ seen' = IF track THEN seen \cup {<<arg, Outcome>>} ELSE seen
  /\ pc' = "idle"
  /\ entry' = ""
  /\ mask' = NoMask
  /\ arg' = NoMask
  /\ ClearLocals
  /\ UNCHANGED directVars /\ UNCHANGED envVars

\* a caller passes one of the frames
DetectCall == pc = "idle" /\ \E m \in Frames : Detect(m)

Next ==
  \/ DetectCall
  \/ ShapeError
  \/ Shape
  \/ FindCenterProfiles
  \/ FindCenterContacts
  \/ FindCenterReturn
  \/ Heading
  \/ Package
  \/ PackageDrawError
  \/ Return

Spec == Init /\ [][Next]_vars

SpecDet == InitDet /\ [][Next]_vars

\* --------------------------------------------- find_center called directly

\* the shapes and reference points given to find_center
FindShapes == {<<h, w>> : h \in 1..MaxFindH, w \in 1..MaxFindW} \cup {ExampleShape}
FindMasks == UNION {MasksOf(sh, MaxPixels, PixelValues) : sh \in FindShapes}
ExampleRefPoints == {<<50, 60>>, <<49, 60>>, <<50, 59>>}
RefPoints(shape) ==
  IF shape = ExampleShape THEN ExampleRefPoints
  ELSE (-1..shape[2]) \X (-1..shape[1])

\* find_center(m, x, y) is called
CallFindCenter(m, x, y) ==
  /\ pc = "idle"
  /\ mask' = m /\ arg' = m
  /\ entry' = "find_center"
  /\ x0' = x /\ y0' = y
  /\ img_height' = Height(m) /\ img_width' = Width(m)
  /\ pc' = "find_center"
  /\ UNCHANGED <<car_center, prof_l, prof_r, contact_l, contact_r, road_center,
                 heading, path_dict, path_img, error, profile_calls, seen>>
  /\ UNCHANGED directVars /\ UNCHANGED envVars

\* a caller passes a mask and a reference point
FindCenterCall ==
  /\ pc = "idle"
  /\ \E m \in FindMasks : \E q \in RefPoints(m.shape) : CallFindCenter(m, q[1], q[2])

\* find_center returns to its caller
FindCenterExit ==
  /\ pc = "center"
  /\ entry = "find_center"
  /\ pc' = "idle"
  /\ entry' = ""
  /\ mask' = NoMask
  /\ arg' = NoMask
  /\ ClearLocals
  /\ UNCHANGED seen
  /\ UNCHANGED directVars /\ UNCHANGED envVars

NextFind ==
  \/ FindCenterCall
  \/ FindCenterProfiles
  \/ FindCenterContacts
  \/ FindCenterReturn
  \/ FindCenterExit

InitFind == InitCommon /\ track = FALSE /\ fp_err \in {-1, 0, 1} /\ cv2_strict = FALSE

SpecFind == InitFind /\ [][NextFind]_vars

\* ------------------------------------------------- profile called directly

\* the mask, the points and the sample counts given to profile
ProfShape == <<2, 3>>
ProfValues == {1, 255}
ProfMasks == MasksOf(ProfShape, MaxProfPixels, ProfValues)
ProfPoints == (-1..ProfShape[2]) \X (-1..ProfShape[1])

localVars == <<img_height, img_width, x0, y0, car_center, prof_l, prof_r,
               contact_l, contact_r, road_center, heading, path_dict,
               path_img, error, profile_calls, seen>>

\* profile(m, a, b, k) is called
CallProfile(m, a, b, k) ==
  /\ pc = "idle"
  /\ mask' = m /\ arg' = m
  /\ entry' = "profile"
  /\ p0' = a /\ p1' = b /\ num' = k
  /\ pc' = "profile"
  /\ UNCHANGED <<prof_out, model_xy, car_center_xy>>
  /\ UNCHANGED localVars /\ UNCHANGED envVars

\* lines 169-171
ProfileReturn ==
  /\ pc = "profile"
  /\ prof_out' = Profile(mask, p0, p1, num)
  /\ pc' = "profile_done"
  /\ UNCHANGED <<entry, mask, arg, p0, p1, num, model_xy, car_center_xy>>
  /\ UNCHANGED localVars /\ UNCHANGED envVars

\* a caller passes a mask, two points and a sample count N >= 2
ProfileCall ==
  /\ pc = "idle"
  /\ \E m \in ProfMasks, a \in ProfPoints, b \in ProfPoints, k \in 2..MaxNum :
       CallProfile(m, a, b, k)

NextProfile ==
  \/ ProfileCall
  \/ ProfileReturn

SpecProfile == InitDirect /\ [][NextProfile]_vars

\* ---------------------------------------- model_to_heading called directly

HeadingPoints == (-MaxCoord..MaxCoord) \X (-MaxCoord..MaxCoord)

\* model_to_heading(a, b) is called
CallModelToHeading(a, b) ==
  /\ pc = "idle"
  /\ model_xy' = a /\ car_center_xy' = b
  /\ entry' = "model_to_heading"
  /\ pc' = "model_to_heading"
  /\ UNCHANGED <<mask, arg, p0, p1, num, prof_out>>
  /\ UNCHANGED localVars /\ UNCHANGED envVars

\* lines 145-150
ModelToHeadingReturn ==
  /\ pc = "model_to_heading"
  /\ heading' = ModelToHeading(model_xy, car_center_xy)
  /\ pc' = "model_to_heading_done"
  /\ UNCHANGED <<entry, mask, arg, img_height, img_width, x0, y0, car_center, prof_l,
                 prof_r, contact_l, contact_r, road_center, path_dict,
                 path_img, error, profile_calls, seen>>
  /\ UNCHANGED directVars /\ UNCHANGED envVars

\* a caller passes a target and a reference point
ModelToHeadingCall ==
  /\ pc = "idle"
  /\ \E a \in HeadingPoints, b \in HeadingPoints : CallModelToHeading(a, b)

NextHeading ==
  \/ ModelToHeadingCall
  \/ ModelToHeadingReturn

SpecHeading == InitDirect /\ [][NextHeading]_vars

\* ---------------------------------------------------------------- claims

\* positions of detect at which find_center has chosen its contacts
AfterContacts == {"contacts", "center", "heading", "done"}
\* positions of detect at which find_center has returned
AfterCenter == {"center", "heading", "done"}

\* the mask of the end-to-end example: 100 x 100, non-zero exactly at
\* (x=30, y=60) and (x=70, y=60)
IsExampleMask(m) == m.shape = <<100, 100>> /\ DOMAIN m.px = {<<60, 30>>, <<60, 70>>}

\* C1 as stated: for the example mask detect finds the left contact (30,60)
\* and the right contact (70,60), the road center (50,60) and heading 0.
C1_Original ==
  (pc = "done" /\ IsExampleMask(mask)) =>
    /\ x0 = 50 /\ y0 = 60
    /\ contact_l = <<30*39, 60*39>>
    /\ contact_r = <<70*39, 60*39>>
    /\ road_center = <<50, 60>>
    /\ HeadingIsZero(heading)

\* C1 amended: for the example mask (reference x0=50, row y0=60, 40 samples
\* per side) no sample reads column 30 or column 70, both sides take their
\* fallback, (-50,60) and (80,60), the road center is (15,60) and the heading
\* is the positive angle -atan2(-35, 40) whose tangent is 7/8 (about 41.19
\* degrees).
C1_Amended ==
  (pc = "done" /\ IsExampleMask(mask)) =>
    /\ x0 = 50 /\ y0 = 60
    /\ Len(prof_l.vals) = 40 /\ Len(prof_r.vals) = 40
    /\ \A i \in 1..40 : prof_l.vals[i] = 0 /\ prof_r.vals[i] = 0
    /\ contact_l = <<(-50)*39, 60*39>>
    /\ contact_r = <<80*39, 60*39>>
    /\ road_center = <<15, 60>>
    /\ heading = [s |-> 1, dir |-> <<7, 8>>]
    /\ path_dict = [heading |-> heading]

C1_Witness == pc = "done" /\ IsExampleMask(mask) /\ HeadingPositive(heading)

OneLeftHit == Cardinality({i \in 1..Len(prof_l.vals) : prof_l.vals[i] # 0}) = 1

\* C3 as stated: when exactly one sample of the left scan is non-zero, the
\* left contact is the integer (column, row) of a non-zero pixel of the mask.
C3_Original ==
  (pc \in AfterContacts /\ OneLeftHit) =>
    \E cell \in DOMAIN mask.px : contact_l = <<cell[2]*39, cell[1]*39>>

\* C3 amended: when exactly one sample i (0-based) of the left scan is
\* non-zero, the left contact is the coordinate of that sample,
\* (x - i*sample_width/39, y), which lies within half a pixel of the non-zero
\* pixel it read and is that pixel's coordinate only when the sample falls
\* on it exactly.
C3_Amended ==
  (pc \in AfterContacts /\ OneLeftHit) =>
    \E i \in 0..39 :
      /\ prof_l.vals[i + 1] # 0
      /\ contact_l = <<x0*39 - i*(img_width \div 2), y0*39>>
      /\ \E cell \in DOMAIN mask.px :
           /\ cell[1] = y0
           /\ 2*Abs(contact_l[1] - cell[2]*39) <= 39

\* the single hit is a sample that does not fall on a pixel centre
C3_Witness ==
  /\ pc = "contacts" /\ OneLeftHit
  /\ contact_l[1] % 39 # 0
  /\ \A cell \in DOMAIN mask.px : contact_l # <<cell[2]*39, cell[1]*39>>

\* C4 as stated: the road center is ((x1+x2)/2 rounded to the nearest
\* integer, y) for the contacts (x1, y) and (x2, y).
C4_Original ==
  pc \in AfterCenter =>
    /\ 2*Abs(road_center[1]*78 - (contact_l[1] + contact_r[1])) <= 78
    /\ road_center[2] = y0

\* C4 amended: the road center is (int((x1+x2)/2), y): the midpoint is
\* truncated toward zero, not rounded to the nearest integer; when the exact
\* midpoint is an integer k and a contact is a sample that is no integer, the
\* rounding error of the float sum can leave the next integer toward zero
\* instead of k.
C4_Amended ==
  pc \in AfterCenter =>
    LET sum == contact_l[1] + contact_r[1]
        c == road_center[1]
        exact == contact_l[1] % 39 = 0 /\ contact_r[1] % 39 = 0
    IN  /\ road_center[2] = y0
        /\ contact_l[2] = y0*39 /\ contact_r[2] = y0*39
        /\ \/ sum >= 0 /\ c*78 <= sum /\ sum < (c + 1)*78
           \/ sum < 0 /\ (c - 1)*78 < sum /\ sum <= c*78
           \/ ~exact /\ sum > 0 /\ sum = (c + 1)*78
           \/ ~exact /\ sum < 0 /\ sum = (c - 1)*78

\* a negative midpoint with a fraction above one half: truncation and
\* rounding to nearest differ
C4_Witness ==
  /\ pc = "center"
  /\ contact_l[1] + contact_r[1] < 0
  /\ 2*((contact_l[1] + contact_r[1]) % 78) < 78
  /\ (contact_l[1] + contact_r[1]) % 78 # 0
  /\ road_center[1]*78 > contact_l[1] + contact_r[1]

\* C5 as stated: with dx = target.x - reference.x and dy = target.y -
\* reference.y, model_to_heading gives 0 for dx=0, dy<0; a strictly positive
\* heading for dx<0, dy<0; a strictly negative one for dx>0, dy<0; +90 for
\* dy=0, dx<0; -90 for dy=0, dx>0; and 0 for dx=dy=0.
C5_Original ==
  pc = "model_to_heading_done" =>
    LET dx == model_xy[1] - car_center_xy[1]
        dy == model_xy[2] - car_center_xy[2]
    IN  /\ (dx = 0 /\ dy < 0) => HeadingIsZero(heading)
        /\ (dx < 0 /\ dy < 0) => HeadingPositive(heading)
        /\ (dx > 0 /\ dy < 0) => HeadingNegative(heading)
        /\ (dy = 0 /\ dx < 0) => (HeadingIs90(heading) /\ heading.s = 1)
        /\ (dy = 0 /\ dx > 0) => (HeadingIs90(heading) /\ heading.s = -1)
        /\ (dx = 0 /\ dy = 0) => HeadingIsZero(heading)

\* a mask that is not a 2-D grid or has a dimension that is not positive
Malformed(m) == Len(m.shape) # 2 \/ m.shape[1] <= 0 \/ m.shape[2] <= 0

\* C6 as stated: for a mask that is not 2-D or has a non-positive dimension,
\* detect fails before any sampling occurs and never completes with a
\* heading.
C6_Original ==
  (pc # "idle" /\ Malformed(mask)) =>
    /\ profile_calls = 0
    /\ pc # "done"

SampleX(i) == p0[1]*(num - 1) + i*(p1[1] - p0[1])
SampleY(i) == p0[2]*(num - 1) + i*(p1[2] - p0[2])

\* the grid cells (row or column indices below len) nearest to the
\* coordinate n/d: those within half a pixel of it
NearestCells(n, d, len) == {c \in 0..(len - 1) : 2*Abs(n - c*d) <= d}

\* C8 as stated: profile returns three sequences of exactly N entries, sample
\* i lies at p0 + i*(p1-p0)/(N-1), and its value is the mask value at the
\* grid cell (row, column) nearest that coordinate, or zero when the
\* coordinate falls outside the mask.  A coordinate with 0 <= x < W - 1/2 and
\* 0 <= y < H - 1/2 is inside the mask (it satisfies 0 <= x < W, 0 <= y < H
\* and its nearest cell is a cell of the mask); for any other coordinate
\* zero is accepted.
C8_Original ==
  pc = "profile_done" =>
    /\ Len(prof_out.n) = num /\ Len(prof_out.m) = num /\ Len(prof_out.vals) = num
    /\ \A i \in 0..(num - 1) :
         LET d == num - 1
             x == SampleX(i)
             y == SampleY(i)
             rows == NearestCells(y, d, ProfShape[1])
             cols == NearestCells(x, d, ProfShape[2])
             inside == /\ 0 <= x /\ 2*x < (2*ProfShape[2] - 1)*d
                       /\ 0 <= y /\ 2*y < (2*ProfShape[1] - 1)*d
         IN  /\ prof_out.n[i + 1] = x
             /\ prof_out.m[i + 1] = y
             /\ \/ ~inside /\ prof_out.vals[i + 1] = 0
                \/ \E r \in rows, c \in cols :
                     prof_out.vals[i + 1] = MaskAt(mask, r, c)

\* C8 amended: profile returns three sequences of exactly N entries, sample i
\* lies at p0 + i*(p1-p0)/(N-1), and its value is zero when its x is below 0
\* or above W-1 or its y is below 0 or above H-1 (also when it lies less than
\* half a pixel beyond the first or last row or column, whose cell is the
\* nearest one), and otherwise the mask value at the cell (floor(y + 1/2),
\* floor(x + 1/2)).
C8_Amended ==
  pc = "profile_done" =>
    /\ Len(prof_out.n) = num /\ Len(prof_out.m) = num /\ Len(prof_out.vals) = num
    /\ \A i \in 0..(num - 1) :
         LET d == num - 1
             x == SampleX(i)
             y == SampleY(i)
             inside == /\ 0 <= x /\ x <= (ProfShape[2] - 1)*d
                       /\ 0 <= y /\ y <= (ProfShape[1] - 1)*d
         IN  /\ prof_out.n[i + 1] = x
             /\ prof_out.m[i + 1] = y
             /\ ~inside => prof_out.vals[i + 1] = 0
             /\ inside =>
                  \E r \in 0..(ProfShape[1] - 1), c \in 0..(ProfShape[2] - 1) :
                    /\ 2*r*d - d <= 2*y /\ 2*y < 2*r*d + d
                    /\ 2*c*d - d <= 2*x /\ 2*x < 2*c*d + d
                    /\ prof_out.vals[i + 1] = MaskAt(mask, r, c)

\* a sample less than half a pixel beyond the last column reads zero although
\* the nearest cell is non-zero
C8_Witness ==
  /\ pc = "profile_done"
  /\ \E i \in 0..(num - 1) :
       /\ SampleX(i) > (ProfShape[2] - 1)*(num - 1)
       /\ 2*SampleX(i) < (2*ProfShape[2] - 1)*(num - 1)
       /\ SampleY(i) % (num - 1) = 0
       /\ SampleY(i) \div (num - 1) \in 0..(ProfShape[1] - 1)
       /\ MaskAt(mask, SampleY(i) \div (num - 1), ProfShape[2] - 1) # 0
       /\ prof_out.vals[i + 1] = 0

\* C9: for a 2-D mask with H >= 1 and W >= 1 the road center lies on row
\* int(0.6*H), strictly above the car center row H, so dy < 0 and the heading
\* is strictly between -90 and +90 degrees, whatever the contacts.
C9_HeadingRange ==
  (pc \in AfterCenter /\ img_height >= 1 /\ img_width >= 1) =>
    /\ 10*road_center[2] <= 6*img_height
    /\ 6*img_height < 10*(road_center[2] + 1)
    /\ road_center[2] < img_height
    /\ car_center[2] = img_height
    /\ pc \in {"heading", "done"} => HeadingBelow90(heading)
    /\ pc = "done" => path_dict.heading = heading

\* a returned heading that is not zero, from a center built on a fallback
C9_Witness ==
  /\ pc = "done" /\ img_height >= 1 /\ img_width >= 1
  /\ \A i \in 1..40 : prof_l.vals[i] = 0
  /\ ~HeadingIsZero(path_dict.heading)
  /\ HeadingBelow90(path_dict.heading)

\* the mask pixel at the reference point is non-zero
ReferenceSet == Len(mask.shape) = 2 /\ <<y0, x0>> \in DOMAIN mask.px

\* C10: both scans start at the reference point (sample 0 of each profile is
\* (x, y)), so when the mask pixel at (x0, y0) is non-zero both contacts are
\* the reference point whatever the other pixels, the road center is
\* (x0, y0) and detect returns heading 0.
C10_ReferencePixel ==
  /\ pc \in {"sampled"} \cup AfterContacts =>
       /\ prof_l.n[1] = x0*39 /\ prof_l.m[1] = y0*39
       /\ prof_r.n[1] = x0*39 /\ prof_r.m[1] = y0*39
  /\ (pc \in AfterContacts /\ ReferenceSet) =>
       /\ contact_l = <<x0*39, y0*39>>
       /\ contact_r = <<x0*39, y0*39>>
  /\ (pc \in AfterCenter /\ ReferenceSet) => road_center = <<x0, y0>>
  /\ (pc = "done" /\ ReferenceSet) => HeadingIsZero(path_dict.heading)

\* heading 0 is returned with the reference pixel and another pixel of the
\* sampled row set
C10_Witness ==
  /\ pc = "done" /\ ReferenceSet
  /\ \E cell \in DOMAIN mask.px : cell[1] = y0 /\ cell[2] # x0
  /\ HeadingIsZero(path_dict.heading)

====
